---- MODULE Spec2Model ----
(***************************************************************************)
(* Model of the asset upload service: the two upload handlers              *)
(* (handlers/upload.go), the full video transform                          *)
(* (utils/video_processor.go) and the trim (utils/file_utils.go), run by   *)
(* two concurrent requests over one temporary directory.                   *)
(*                                                                         *)
(* Conventions.                                                            *)
(*  - A file name is a sequence of tokens; string concatenation is \o.     *)
(*    Only extension tokens hold a dot, so filepath.Ext is the last token  *)
(*    when it is an extension token.                                       *)
(*  - A text (error text, response message) is a sequence of pieces; the   *)
(*    text "carries" a piece when the piece occurs in the sequence.        *)
(*  - File contents are abstracted to [src, form, size]: the request whose *)
(*    upload the bytes derive from, how they were produced, and whether    *)
(*    they are empty (0) or not (1).                                       *)
(*  - The external tools (ffmpeg, ffprobe, S3, the OS) answer              *)
(*    nondeterministically; a failed encoder run leaves the directory      *)
(*    unchanged.                                                           *)
(***************************************************************************)
EXTENDS Naturals, Sequences, FiniteSets, TLC

VARIABLES rq, fs, ffmpegInstalled, calc, pv

vars == <<rq, fs, ffmpegInstalled, calc, pv>>

Reqs == {1, 2}

Handlers == {"HandleUpload", "HandleSimpleUpload"}

\* ---------------------------------------------------------------- names

Names == { <<"a", ".webm">>, <<"a", "_processed", ".mp4">>, <<"a", ".txt">> }

\* What http.DetectContentType answers for the uploaded bytes: <<type, subtype>>.
Mimes == { <<"image", "png">>, <<"video", "mp4">>, <<"application", "pdf">> }

ExtTokens ==
  { ".mp4", ".mov", ".avi", ".wmv", ".flv", ".webm", ".mkv", ".m4v", ".3gp",
    ".ogg", ".ogv", ".mpg", ".mpeg", ".ts", ".mts", ".vob", ".divx", ".m2ts",
    ".mxf", ".asf", ".rm", ".rmvb", ".dv", ".f4v", ".txt", ".MP4" }

videoExtensions ==
  { ".mp4", ".mov", ".avi", ".wmv", ".flv", ".webm", ".mkv", ".m4v", ".3gp",
    ".ogg", ".ogv", ".mpg", ".mpeg", ".ts", ".mts", ".vob", ".divx", ".m2ts",
    ".mxf", ".asf", ".rm", ".rmvb", ".dv", ".f4v" }

\* strings.ToLower on one token.
ToLower(tok) == IF tok = ".MP4" THEN ".mp4" ELSE tok

\* filepath.Ext: the suffix from the last dot, "" when there is none.
Ext(name) ==
  IF Len(name) > 0 /\ name[Len(name)] \in ExtTokens THEN name[Len(name)] ELSE ""

\* strings.TrimSuffix(name, filepath.Ext(name)).
TrimExt(name) ==
  IF Ext(name) = "" THEN name ELSE SubSeq(name, 1, Len(name) - 1)

IsVideoFile(filename) == ToLower(Ext(filename)) \in videoExtensions

\* strings.HasSuffix(strings.ToLower(name), ".mp4").
HasSuffixMp4Lower(name) == Len(name) > 0 /\ ToLower(name[Len(name)]) = ".mp4"

\* strings.HasPrefix(fileType, "image/") and strings.HasPrefix(fileType, "video/").
HasPrefixImage(fileType) == fileType[1] = "image"
HasPrefixVideo(fileType) == fileType[1] = "video"

\* filepath.Join(os.TempDir(), name): every temp file lives in the one temp
\* directory, so a path is its file name.
TempJoin(name) == name

\* A variant of the output path that only replaces the extension by ".mp4".
OutputPathReplacingExt(inputPath) == TrimExt(inputPath) \o <<".mp4">>

\* inputPath minus its extension, plus "_processed.mp4".
OutputPathOf(inputPath) == TrimExt(inputPath) \o <<"_processed", ".mp4">>

\* filepath.Join(os.TempDir(), "trimmed_"+header.Filename).
TrimmedPathOf(filename) == TempJoin(<<"trimmed_">> \o filename)

\* os.CreateTemp("", "upload-*"): the OS picks a suffix no other live file has.
UniqueSuffix(i) == IF i = 1 THEN "r1" ELSE "r2"
StagingPathOf(i) == <<"upload-", UniqueSuffix(i)>>

\* ---------------------------------------------------------- file system

NoPath == << >>
NoText == << >>
NoContent == [src |-> 0, form |-> "", size |-> 0]
EmptyFS == [q \in {} |-> 0]

Exists(f, p) == p \in DOMAIN f
\* A variant of the write that stores nothing of the data.
WriteFileShort(f, p, data, i) ==
  [q \in DOMAIN f \cup {p} |->
     IF q = p THEN [data |-> [data EXCEPT !.size = 0], owner |-> i] ELSE f[q]]

WriteFile(f, p, data, i) ==
  [q \in DOMAIN f \cup {p} |-> IF q = p THEN [data |-> data, owner |-> i] ELSE f[q]]
RemoveFile(f, p) == [q \in DOMAIN f \ {p} |-> f[q]]

\* TRUE when path p holds a file that another invocation wrote last.
Foreign(f, p, i) == Exists(f, p) /\ f[p].owner # i

\* What a path holds: nothing, an empty file or a non-empty one.
OutputState(f, p) ==
  IF ~Exists(f, p) THEN "missing" ELSE IF f[p].data.size = 0 THEN "empty" ELSE "nonempty"

RECURSIVE RemoveAll(_, _)
RemoveAll(f, paths) ==
  IF paths = << >> THEN f ELSE RemoveAll(RemoveFile(f, Head(paths)), Tail(paths))

Range(s) == {s[k] : k \in DOMAIN s}

\* ------------------------------------------------------------- requests

NoResp == [status |-> 0, Message |-> NoText, FileName |-> NoPath]

InitReq(i, h, name, mime) ==
  [ handler |-> h,
    in |-> [name |-> name, mime |-> mime],
    Filename |-> name,
    fileType |-> mime,
    fileBytes |-> [src |-> i, form |-> "orig", size |-> 1],
    fileInfoType |-> << >>,
    pc |-> "start",
    tempPath |-> NoPath,
    outputPath |-> NoPath,
    trimmedPath |-> NoPath,
    isVideo |-> FALSE,
    returned |-> FALSE,
    processedPath |-> NoPath,
    processed |-> FALSE,
    err |-> NoText,
    outAtReturn |-> "",
    wasProcessed |-> FALSE,
    steps |-> << >>,
    invoked |-> {},
    defers |-> << >>,
    created |-> {},
    foreign |-> FALSE,
    uploaded |-> << >>,
    response |-> NoResp,
    probed |-> "",
    written |-> 0,
    panicked |-> FALSE ]

\* ============================================ ratios and the format catalog

\* Largest width and height drawn for the pure functions, and the largest
\* denominator bound drawn besides the handlers' own.
MaxDim == 16
MaxDen == 4

\* The bound the handlers pass to FloatToRatio (upload.go).
maxDenominator == 100

Abs(a, b) == IF a >= b THEN a - b ELSE b - a

\* A float64 value is a fraction n/d of naturals, +Inf or NaN; fractions are
\* compared exactly.
Fin(n, d) == [cls |-> "fin", n |-> n, d |-> d]
Inf == [cls |-> "inf", n |-> 0, d |-> 0]
NaN == [cls |-> "nan", n |-> 0, d |-> 0]

\* float64(width) / float64(height): x/0 is +Inf for x > 0 and NaN for x = 0.
FloatDiv(width, height) ==
  IF height # 0 THEN Fin(width, height)
  ELSE IF width # 0 THEN Inf ELSE NaN

\* math.Abs(x - y) for a float x and a finite y.
AbsDiff(x, y) ==
  IF x.cls = "fin" THEN Fin(Abs(x.n * y.d, y.n * x.d), x.d * y.d) ELSE x

\* x < y between two floats that are not negative; false when either is NaN.
FloatLess(x, y) ==
  CASE x.cls = "nan" \/ y.cls = "nan" -> FALSE
    [] x.cls = "inf" -> FALSE
    [] y.cls = "inf" -> TRUE
    [] OTHER -> x.n * y.d < y.n * x.d

\* diff < minDiff, where minDiff starts at math.MaxFloat64 (best = FALSE).
Improves(diff, hasBest, minDiff) ==
  IF hasBest THEN FloatLess(diff, minDiff) ELSE diff.cls = "fin"

\* fmt.Sprintf("%d:%d", a, b).
SprintfRatio(a, b) == <<ToString(a), ":", ToString(b)>>

\* The zero MediaFormat and the catalog (resizer.go lines 14-29); the decimals
\* 1.0, 0.8, 0.5625 and 1.776 are written as fractions in lowest terms.
NoFormat ==
  [Name |-> "", Width |-> 0, Height |-> 0, AspectRatio |-> Fin(0, 1), FormattedRatio |-> << >>]

formats ==
  << [Name |-> "square", Width |-> 1080, Height |-> 1080,
      AspectRatio |-> Fin(1, 1), FormattedRatio |-> <<"1", ":", "1">>],
     [Name |-> "portrait", Width |-> 1080, Height |-> 1350,
      AspectRatio |-> Fin(4, 5), FormattedRatio |-> <<"4", ":", "5">>],
     [Name |-> "story", Width |-> 1080, Height |-> 1920,
      AspectRatio |-> Fin(9, 16), FormattedRatio |-> <<"9", ":", "16">>],
     [Name |-> "landscape", Width |-> 1080, Height |-> 608,
      AspectRatio |-> Fin(222, 125), FormattedRatio |-> <<"1", ":", "91", ":", "1">>] >>

\* A variant of the comparison in DetectFormat's loop that lets a later entry
\* at the same distance replace the earlier one.
CloserOrEqual(diff, hasBest, minDiff) ==
  Improves(diff, hasBest, minDiff) \/ (hasBest /\ diff.cls = "fin" /\ ~FloatLess(minDiff, diff))

\* `if diff < minDiff` in DetectFormat's loop (resizer.go line 47).
Closer(diff, hasBest, minDiff) == Improves(diff, hasBest, minDiff)

\* The loop of lines 45-51 over the package's catalog as it is at the call.
RECURSIVE DetectLoop(_, _, _, _, _, _)
DetectLoop(catalog, originalRatio, k, hasBest, minDiff, closestFormat) ==
  IF k > Len(catalog) THEN closestFormat
  ELSE LET diff == AbsDiff(originalRatio, catalog[k].AspectRatio) IN
       IF Closer(diff, hasBest, minDiff)
       THEN DetectLoop(catalog, originalRatio, k + 1, TRUE, diff, catalog[k])
       ELSE DetectLoop(catalog, originalRatio, k + 1, hasBest, minDiff, closestFormat)

\* NewResizer (resizer.go lines 35-37).
NewResizer(quality) == [Quality |-> quality]

\* A variant of DetectFormat whose answer depends on the receiver's quality.
DetectFormatByQuality(r, catalog, width, height) ==
  IF r.Quality < 90 THEN << >>
  ELSE DetectLoop(catalog, FloatDiv(width, height), 1, FALSE, NaN, NoFormat).FormattedRatio

\* Resizer.DetectFormat (resizer.go lines 39-54) on receiver r: it reads the
\* package's catalog and its two arguments, and no field of r.
DetectFormatOn(r, catalog, width, height) ==
  DetectLoop(catalog, FloatDiv(width, height), 1, FALSE, NaN, NoFormat).FormattedRatio

\* The same call while the catalog is the table it was created from.
DetectFormat(width, height) == DetectFormatOn(NewResizer(90), formats, width, height)

\* A variant of the range loops that writes the entry it visits last over
\* the first entry of the slice.
RangeOverWritingFirst(catalog) == [catalog EXCEPT ![1] = catalog[Len(catalog)]]

\* What a `for _, f := range formats` loop leaves of the slice (resizer.go
\* lines 45-51, 58-63, 179-183; file_utils.go lines 699-705): f is a copy of
\* the entry and the bodies assign to locals only.
RangeOver(catalog) == catalog

\* GetFormats (part_005 lines 29-32) returns the package's slice itself.
GetFormats(catalog) == catalog

\* The functions that read the catalog besides DetectFormat, and the catalog
\* after a call of one of them; ProcessVideo of file_utils.go obtains it
\* through GetFormats.
CatalogReaders ==
  {"Resizer.ResizeImage", "Resizer.validateFormat", "Resizer.ProcessVideo", "ProcessVideo"}

CatalogAfter(reader, catalog) ==
  IF reader = "ProcessVideo" THEN RangeOver(GetFormats(catalog)) ELSE RangeOver(catalog)

\* gcd (file_utils.go lines 250-255).
RECURSIVE gcd(_, _)
gcd(a, b) == IF b = 0 THEN a ELSE gcd(b, a % b)

\* A variant of the rounding that truncates.
TruncTimes(f, d) == (f.n * d) \div f.d

\* int(math.Round(f * float64(d))) for a finite f that is not negative:
\* halves round away from zero.
RoundTimes(f, d) == (2 * f.n * d + f.d) \div (2 * f.d)

\* One iteration of FloatToRatio's loop (file_utils.go lines 237-242) on the
\* loop's variables; minDiff starts at math.MaxFloat64 (hasBest = FALSE).
RatioStep(f, acc, d) ==
  LET n == IF f.cls = "fin" THEN RoundTimes(f, d) ELSE 0
      diff == AbsDiff(f, Fin(n, d)) IN
  IF Improves(diff, acc.hasBest, acc.minDiff)
  THEN [hasBest |-> TRUE, minDiff |-> diff, num |-> n, den |-> d]
  ELSE acc

\* The loop's variables after the iterations for d = lo, ..., hi, taken in
\* that order from the values in acc; the range is walked in two halves,
\* the first evaluated before the second is entered (den is never negative).
RECURSIVE RatioLoop(_, _, _, _)
RatioLoop(f, lo, hi, acc) ==
  IF lo > hi THEN acc
  ELSE IF lo = hi THEN RatioStep(f, acc, lo)
  ELSE LET mid == (lo + hi) \div 2
           first == RatioLoop(f, lo, mid, acc) IN
       IF first.den >= 0 THEN RatioLoop(f, mid + 1, hi, first) ELSE first

\* FloatToRatio (file_utils.go lines 234-247). The result names are zero until
\* the loop assigns them; num / g and den / g are integer divisions, which
\* panic when g = 0.
FloatToRatio(f, maxDen) ==
  LET best == RatioLoop(f, 1, maxDen,
                        [hasBest |-> FALSE, minDiff |-> NaN, num |-> 0, den |-> 0])
      g == gcd(best.num, best.den) IN
  IF g = 0
  THEN [panic |-> TRUE, num |-> 0, den |-> 0]
  ELSE [panic |-> FALSE, num |-> best.num \div g, den |-> best.den \div g]

\* A variant of calculateAspectRatio that does not divide by the divisor.
calculateAspectRatioUnreduced(width, height) ==
  IF width = 0 \/ height = 0 THEN <<"0", ":", "0">> ELSE SprintfRatio(width, height)

\* calculateAspectRatio (file_utils.go lines 112-126).
calculateAspectRatio(width, height) ==
  IF width = 0 \/ height = 0 THEN <<"0", ":", "0">>
  ELSE SprintfRatio(width \div gcd(width, height), height \div gcd(width, height))

\* The metadata computed by the handlers from the dimensions of an image or a
\* video (upload.go lines 100-115, 179-195, 443-457, 481-495).
NoInfo ==
  [panic |-> FALSE, Width |-> 0, Height |-> 0, OriginalRatio |-> << >>, MatchedFormat |-> << >>]

FileInfoOf(width, height) ==
  LET ratio == FloatDiv(width, height)
      standardFormat == DetectFormat(width, height)
      r == FloatToRatio(ratio, maxDenominator) IN
  IF r.panic
  THEN [NoInfo EXCEPT !.panic = TRUE]
  ELSE [panic |-> FALSE, Width |-> width, Height |-> height,
        OriginalRatio |-> SprintfRatio(r.num, r.den), MatchedFormat |-> standardFormat]

\* The pure functions and Resizer.ProcessVideo take no part in a request that
\* is being served: their state is idle here.
\* The external programs main looks up before router.Run (main.go lines
\* 13-65): it builds the router, the CORS middleware and the routes, and
\* nothing else.
StartupChecks == {}

NoCalc == [kind |-> "none", op |-> "none"]
NoCalls == [pool |-> {}, call |-> << >>]

Init ==
  /\ rq \in { [i \in Reqs |-> InitReq(i, hs[i], ns[i], ms[i])] :
                hs \in [Reqs -> Handlers],
                ns \in [Reqs -> Names],
                ms \in [Reqs -> Mimes] }
  /\ fs = EmptyFS
  /\ ffmpegInstalled \in BOOLEAN
  /\ calc = NoCalc
  /\ pv = NoCalls

\* c.JSON(status, ...) followed by return: the deferred os.Remove calls run,
\* last registered first.
Exit(i, r, status, message) ==
  /\ rq' = [rq EXCEPT ![i] =
       [r EXCEPT !.pc = "done",
                 !.written = r.written + 1,
                 !.response = [status |-> status, Message |-> message,
                               FileName |-> IF status = 200 THEN r.Filename ELSE NoPath],
                 !.foreign = r.foreign \/ \E k \in DOMAIN r.defers : Foreign(fs, r.defers[k], i)]]
  /\ fs' = RemoveAll(fs, r.defers)
  /\ UNCHANGED <<ffmpegInstalled, calc, pv>>

\* The dimensions GetVideoMetadata reports for a file it could probe: those
\* of the stream, or zeros for fields that did not parse.
ProbedDims == { <<16, 9>>, <<0, 0>> }

\* Those of them on which the handler's ratio computation panics.
PanickingDims == {dims \in ProbedDims : FileInfoOf(dims[1], dims[2]).panic}

\* A run-time panic inside a handler: the deferred os.Remove calls run, the
\* handler writes nothing, and the router's recovery answers with a bare 500.
Panic(i, r) ==
  /\ rq' = [rq EXCEPT ![i] =
       [r EXCEPT !.pc = "done",
                 !.panicked = TRUE,
                 !.response = [status |-> 500, Message |-> NoText, FileName |-> NoPath],
                 !.foreign = r.foreign \/ \E k \in DOMAIN r.defers : Foreign(fs, r.defers[k], i)]]
  /\ fs' = RemoveAll(fs, r.defers)
  /\ UNCHANGED <<ffmpegInstalled, calc, pv>>

\* The metadata step of the video branch (upload.go lines 171-196, 472-495):
\* GetVideoMetadata on the file at path; without metadata the handler goes on
\* with the bare file info, with metadata it computes the ratios, which panics
\* inside FloatToRatio on some dimensions.
VideoMetadata(i, r, path) ==
  LET probed == IF Exists(fs, path) THEN fs[path].data.form ELSE ""
      r1 == [r EXCEPT !.probed = probed] IN
  \E dims \in ProbedDims :
    IF probed # "" /\ dims \in PanickingDims
    THEN Panic(i, r1)
    ELSE /\ rq' = [rq EXCEPT ![i] = r1]
         /\ UNCHANGED <<fs, ffmpegInstalled, calc, pv>>

\* Lines 32-127 and 197-201 of HandleUpload, 373-470 and 554-559 of
\* HandleSimpleUpload. First the multipart parsing, the AWS configuration
\* check, FormFile and io.ReadAll, each answering 400/500 on failure; then the
\* classification by http.DetectContentType, with the extension test as the
\* second way into the video branch, where the upload is copied to tempPath.
Receive(i) ==
  LET r == rq[i] IN
  /\ r.pc = "start"
  /\ \/ \E outcome \in {"parse_err", "no_credentials", "no_file", "read_err"} :
          CASE outcome = "parse_err" ->
                 Exit(i, r, 400, <<"Failed to parse multipart form: ", "parse error">>)
            [] outcome = "no_credentials" ->
                 Exit(i, r, 400, <<"AWS credentials and configuration are required">>)
            [] outcome = "no_file" ->
                 Exit(i, r, 400, <<"Failed to get file from form data: ", "no file">>)
            [] OTHER ->
                 Exit(i, r, 500, <<"Failed to read file: ", "read error">>)
     \/ /\ HasPrefixImage(r.fileType)
        /\ \E decoded \in BOOLEAN :
             IF decoded
             THEN /\ rq' = [rq EXCEPT ![i] = [r EXCEPT !.fileInfoType = <<"image">>, !.pc = "stage"]]
                  /\ UNCHANGED <<fs, ffmpegInstalled, calc, pv>>
             ELSE Exit(i, r, 500, <<"Failed to get image dimensions: ", "decode error">>)
     \/ /\ ~HasPrefixImage(r.fileType)
        /\ HasPrefixVideo(r.fileType) \/ IsVideoFile(r.Filename)
        /\ \E written \in BOOLEAN :
             IF written
             THEN LET tempPath == TempJoin(r.Filename) IN
                  /\ rq' = [rq EXCEPT ![i] =
                       [r EXCEPT !.tempPath = tempPath,
                                 !.defers = <<tempPath>> \o r.defers,
                                 !.created = r.created \cup {tempPath},
                                 !.foreign = r.foreign \/ Foreign(fs, tempPath, i),
                                 !.pc = IF r.handler = "HandleUpload" THEN "t_begin" ELSE "s_trim"]]
                  /\ fs' = WriteFile(fs, tempPath, r.fileBytes, i)
                  /\ UNCHANGED <<ffmpegInstalled, calc, pv>>
             ELSE Exit(i, r, 500, <<"Failed to create temp video file: ", "write error">>)
     \/ /\ ~HasPrefixImage(r.fileType)
        /\ ~(HasPrefixVideo(r.fileType) \/ IsVideoFile(r.Filename))
        /\ rq' = [rq EXCEPT ![i] =
             [r EXCEPT !.fileInfoType = r.fileType, !.pc = "stage"]]
        /\ UNCHANGED <<fs, ffmpegInstalled, calc, pv>>

\* ------------------------------------------ ProcessVideoWithBitrateReduction

NoArgs ==
  [t |-> 0, cv |-> "", preset |-> "", crf |-> 0, ca |-> "", ba |-> "",
   movflags |-> "", pix_fmt |-> "", c |-> ""]

Step(stage, ok, args) == [stage |-> stage, ok |-> ok, args |-> args]

\* The three results of the transform: (path, processed, err).
Return(r, path, processed, err) ==
  [r EXCEPT !.returned = TRUE, !.processedPath = path, !.processed = processed,
            !.err = err, !.pc = "t_ret"]

\* The spec's names for the transform's errors, told apart by their text.
IsEncoderUnavailable(err) == err # NoText /\ err[1] = "ffmpeg is not installed: "
IsCorruptInputError(err) ==
  err # NoText /\ err[1] = "failed to process video - input file may be corrupted: "
IsTranscodeError(err) == err # NoText /\ err[1] = "failed to process video (all methods): "
IsEmptyOutputError(err) ==
  err # NoText /\ err[1] \in {"output file not created: ", "output file has zero size"}

\* exec.LookPath("ffmpeg") and its error branch (lines 74-79).
LookPathStep(r, found) ==
  IF found
  THEN [r EXCEPT !.steps = Append(r.steps, Step("LookPath", TRUE, NoArgs)),
                 !.pc = "t_validate"]
  ELSE Return([r EXCEPT !.steps = Append(r.steps, Step("LookPath", FALSE, NoArgs))],
              NoPath, FALSE, <<"ffmpeg is not installed: ", "executable file not found">>)

\* Lines 16-79: the video test (extension first, filetype.Match on the first
\* 261 bytes otherwise), the logged os.Stat and GetVideoMetadata, the output
\* path and the encoder lookup.
TransformBegin(i) ==
  LET r == rq[i]
      inputPath == r.tempPath
      r0 == [r EXCEPT !.invoked = r.invoked \cup {"ProcessVideoWithBitrateReduction"}]
      Proceed(r1) ==
        LookPathStep(
          [r1 EXCEPT !.isVideo = TRUE,
                     !.steps = Append(r1.steps, Step("GetVideoMetadata", TRUE, NoArgs)),
                     !.outputPath = OutputPathOf(inputPath)],
          ffmpegInstalled)
  IN
  /\ r.pc = "t_begin"
  /\ UNCHANGED <<fs, ffmpegInstalled, calc, pv>>
  /\ IF IsVideoFile(inputPath)
     THEN rq' = [rq EXCEPT ![i] = Proceed(r0)]
     ELSE IF ~Exists(fs, inputPath)
     THEN rq' = [rq EXCEPT ![i] =
            Return(r0, NoPath, FALSE,
                   <<"failed to open file for type detection: ", "no such file">>)]
     ELSE LET r1 == [r0 EXCEPT !.foreign = r0.foreign \/ Foreign(fs, inputPath, i)] IN
          IF fs[inputPath].data.size = 0
          THEN rq' = [rq EXCEPT ![i] =
                 Return(r1, NoPath, FALSE, <<"failed to read file header: ", "EOF">>)]
          ELSE \E kindIsVideo \in BOOLEAN :
                 IF kindIsVideo
                 THEN rq' = [rq EXCEPT ![i] = Proceed(r1)]
                 ELSE rq' = [rq EXCEPT ![i] = Return(r1, inputPath, FALSE, NoText)]

\* A variant of the validation pass that logs a failure and goes on.
ValidateStepIgnoringFailure(r, ok) ==
  [r EXCEPT !.steps = Append(r.steps, Step("validate", ok, NoArgs)),
            !.pc = "t_primary"]

\* The validation pass and its error branch (lines 81-87).
ValidateStep(r, ok) ==
  IF ok
  THEN [r EXCEPT !.steps = Append(r.steps, Step("validate", TRUE, NoArgs)),
                 !.pc = "t_primary"]
  ELSE Return([r EXCEPT !.steps = Append(r.steps, Step("validate", FALSE, NoArgs))],
              NoPath, FALSE,
              <<"failed to process video - input file may be corrupted: ", "exit status 1">>)

TransformValidate(i) ==
  LET r == rq[i]
      r1 == [r EXCEPT !.foreign = r.foreign \/ Foreign(fs, r.tempPath, i)] IN
  /\ r.pc = "t_validate"
  /\ UNCHANGED <<fs, ffmpegInstalled, calc, pv>>
  /\ \E ok \in BOOLEAN :
       /\ ok => Exists(fs, r.tempPath)
       /\ rq' = [rq EXCEPT ![i] = ValidateStep(r1, ok)]

\* What one encoder run can do: fail, or exit 0 having written a non-empty
\* file, an empty file, or no file.
EncoderOutcomes == {"fail", "ok", "ok_empty", "ok_missing"}

\* The directory after an encoder run of invocation i from inPath to outPath.
EncoderWrites(f, i, inPath, outPath, form, outcome) ==
  IF outcome \in {"ok", "ok_empty"}
  THEN WriteFile(f, outPath,
                 [src |-> f[inPath].data.src, form |-> form,
                  size |-> IF outcome = "ok" THEN 1 ELSE 0], i)
  ELSE f

\* Ghost bookkeeping of one encoder run: the files of other invocations it
\* read or overwrote, and the file it created.
EncoderTouches(r, i, inPath, outPath, outcome) ==
  [r EXCEPT !.foreign = \/ r.foreign
                        \/ Foreign(fs, inPath, i)
                        \/ (outcome \in {"ok", "ok_empty"} /\ Foreign(fs, outPath, i)),
            !.created = IF outcome \in {"ok", "ok_empty"}
                        THEN r.created \cup {outPath} ELSE r.created]

\* ffmpeg.KwArgs of the primary command (lines 93-103).
PrimaryArgs ==
  [t |-> 59, cv |-> "libx264", preset |-> "veryfast", crf |-> 28, ca |-> "copy",
   ba |-> "", movflags |-> "+faststart", pix_fmt |-> "yuv420p", c |-> ""]

\* A variant of audioOpts that keeps the source audio stream outside the
\* special containers.
AudioOptsCopyElsewhere(inputExt) ==
  IF inputExt \in {".webm", ".mkv", ".ogg", ".ogv"}
  THEN [ca |-> "aac", ba |-> "96k"]
  ELSE [ca |-> "copy", ba |-> ""]

\* audioOpts (lines 119-126): AAC at 96k, for the special containers and for
\* the rest alike.
AudioOpts(inputExt) ==
  IF inputExt \in {".webm", ".mkv", ".ogg", ".ogv"}
  THEN [ca |-> "aac", ba |-> "96k"]
  ELSE [ca |-> "aac", ba |-> "96k"]

\* A variant of fallbackArgs without the duration option.
FallbackArgsUncapped(inputExt) ==
  [t |-> 0, cv |-> "libx264", preset |-> "ultrafast", crf |-> 30,
   ca |-> AudioOpts(inputExt).ca, ba |-> AudioOpts(inputExt).ba,
   movflags |-> "", pix_fmt |-> "yuv420p", c |-> ""]

\* fallbackArgs (lines 128-142).
FallbackArgs(inputExt) ==
  [t |-> 59, cv |-> "libx264", preset |-> "ultrafast", crf |-> 30,
   ca |-> AudioOpts(inputExt).ca, ba |-> AudioOpts(inputExt).ba,
   movflags |-> "", pix_fmt |-> "yuv420p", c |-> ""]

\* Where the transform goes after the primary run (lines 109-110, 157).
AfterPrimary(exitOk) == IF exitOk THEN "t_verify" ELSE "t_fallback"

TransformPrimary(i) ==
  LET r == rq[i] IN
  /\ r.pc = "t_primary"
  /\ UNCHANGED <<ffmpegInstalled, calc, pv>>
  /\ \E outcome \in EncoderOutcomes :
       /\ outcome # "fail" => Exists(fs, r.tempPath)
       /\ fs' = EncoderWrites(fs, i, r.tempPath, r.outputPath, "transcoded", outcome)
       /\ rq' = [rq EXCEPT ![i] =
            [EncoderTouches(r, i, r.tempPath, r.outputPath, outcome)
               EXCEPT !.steps = Append(r.steps, Step("primary", outcome # "fail", PrimaryArgs)),
                      !.pc = AfterPrimary(outcome # "fail")]]

\* The result of the fallback run (lines 148-154).
FallbackResult(r, exitOk) ==
  IF exitOk
  THEN Return(r, r.outputPath, TRUE, NoText)
  ELSE Return(r, NoPath, FALSE,
              <<"failed to process video (all methods): ", "exit status 1">>)

TransformFallback(i) ==
  LET r == rq[i]
      inputExt == ToLower(Ext(r.tempPath)) IN
  /\ r.pc = "t_fallback"
  /\ UNCHANGED <<ffmpegInstalled, calc, pv>>
  /\ \E outcome \in EncoderOutcomes :
       /\ outcome # "fail" => Exists(fs, r.tempPath)
       /\ fs' = EncoderWrites(fs, i, r.tempPath, r.outputPath, "transcoded", outcome)
       /\ rq' = [rq EXCEPT ![i] =
            FallbackResult(
              [EncoderTouches(r, i, r.tempPath, r.outputPath, outcome)
                 EXCEPT !.steps = Append(r.steps,
                                    Step("fallback", outcome # "fail", FallbackArgs(inputExt))),
                        !.outAtReturn = OutputState(fs', r.outputPath)],
              outcome # "fail")]

\* A variant of the output check that hands the path back with the error.
VerifyResultKeepingPath(r, exists, size) ==
  IF ~exists
  THEN Return(r, r.outputPath, FALSE, <<"output file not created: ", "no such file">>)
  ELSE IF size = 0
  THEN Return(r, r.outputPath, FALSE, <<"output file has zero size">>)
  ELSE Return(r, r.outputPath, TRUE, NoText)

\* os.Stat(outputPath) after a successful primary run (lines 157-167).
VerifyResult(r, exists, size) ==
  IF ~exists
  THEN Return(r, NoPath, FALSE, <<"output file not created: ", "no such file">>)
  ELSE IF size = 0
  THEN Return(r, NoPath, FALSE, <<"output file has zero size">>)
  ELSE Return(r, r.outputPath, TRUE, NoText)

TransformVerify(i) ==
  LET r == rq[i]
      exists == Exists(fs, r.outputPath)
      r1 == [r EXCEPT !.foreign = r.foreign \/ Foreign(fs, r.outputPath, i),
                      !.outAtReturn = OutputState(fs, r.outputPath)] IN
  /\ r.pc = "t_verify"
  /\ UNCHANGED <<fs, ffmpegInstalled, calc, pv>>
  /\ rq' = [rq EXCEPT ![i] =
       VerifyResult(r1, exists, IF exists THEN fs[r.outputPath].data.size ELSE 0)]

\* ------------------------------------------------------ HandleUpload, cont.

\* Lines 129-196: what HandleUpload does with the transform's result. On an
\* error it answers 500 unless the file name ends in .mp4, where it goes on
\* with the original bytes; after a transform it registers the removal of the
\* processed file, reads it and renames the upload. Then GetVideoMetadata on
\* the original or the processed file: with or without metadata the file info
\* says "video".
TransformReturned(i) ==
  LET r == rq[i]
      wasProcessed == IF r.err # NoText THEN FALSE ELSE r.processed
      r1 == [r EXCEPT !.wasProcessed = wasProcessed,
                      !.fileInfoType = <<"video">>,
                      !.steps = Append(r.steps, Step("GetVideoMetadata", TRUE, NoArgs)),
                      !.pc = "stage"] IN
  /\ r.pc = "t_ret"
  /\ IF r.err # NoText /\ ~HasSuffixMp4Lower(r.Filename)
     THEN Exit(i, r, 500, <<"Failed to process non-MP4 video: ">> \o r.err)
     ELSE IF ~wasProcessed
     THEN VideoMetadata(i, r1, r.tempPath)
     ELSE LET r2 == [r1 EXCEPT !.defers = <<r.processedPath>> \o r.defers] IN
          IF ~Exists(fs, r.processedPath)
          THEN Exit(i, [r2 EXCEPT !.fileInfoType = r.fileInfoType, !.steps = r.steps],
                    500, <<"Failed to read processed video: ", "no such file">>)
          ELSE VideoMetadata(i,
                 [r2 EXCEPT !.fileBytes = fs[r.processedPath].data,
                            !.foreign = r.foreign \/ Foreign(fs, r.processedPath, i),
                            !.Filename = TrimExt(r.Filename) \o <<"_processed", ".mp4">>,
                            !.fileType = <<"video", "mp4">>],
                 r.processedPath)

\* The message of line 240.
ProcessedMessage ==
  <<"Video was processed: bitrate reduced while maintaining original resolution, cut to 59 seconds, and converted to MP4 format">>

\* The message of HandleUpload's success response (lines 236-244); the default
\* text of line 236 sits inside a comment, so the message starts empty.
UploadMessage(filename, fileInfoType, originalExtGiven) ==
  IF "_processed" \in Range(filename) /\ Len(filename) > 0 /\ filename[Len(filename)] = ".mp4"
  THEN ProcessedMessage
  ELSE IF /\ Len(filename) > 0 /\ filename[Len(filename)] = ".mp4"
          /\ (originalExtGiven \/ (Len(fileInfoType) = 2 /\ fileInfoType[1] = "video"))
  THEN <<"Video converted to MP4 and uploaded successfully">>
  ELSE NoText

\* The message of HandleSimpleUpload's success response for images and other
\* files (lines 459, 558).
SimpleMessage(fileInfoType) ==
  IF fileInfoType = <<"image">>
  THEN <<"Image uploaded successfully with metadata extracted">>
  ELSE <<"File uploaded successfully">>

\* A variant of the upload's error branch that answers 200 whatever uploadToS3
\* returned.
UploadStatusIgnoringError(stored) == 200

\* The status after uploadToS3 (upload.go lines 230-235, 260; 529-535, 551;
\* 588-593, 610): 500 on its error, 200 with the URL it returned.
UploadStatus(stored) == IF stored THEN 200 ELSE 500

\* Lines 203-260 (562-610 in HandleSimpleUpload): the staging file is created,
\* its removal registered, the bytes written and the file rewound; then
\* uploadToS3 of the staging file under header.Filename, and the response.
\* The staging file has a name of its own, so the steps are taken at once.
StageAndUpload(i) ==
  LET r == rq[i]
      path == StagingPathOf(i)
      r1 == [r EXCEPT !.defers = <<path>> \o r.defers,
                      !.created = r.created \cup {path}]
      staged == WriteFile(fs, path, r.fileBytes, i)
      Leave(r2, f, status, message) ==
        /\ rq' = [rq EXCEPT ![i] =
             [r2 EXCEPT !.pc = "done",
                        !.written = r2.written + 1,
                        !.response = [status |-> status, Message |-> message,
                                      FileName |-> IF status = 200 THEN r2.Filename ELSE NoPath],
                        !.foreign = r2.foreign \/ \E k \in DOMAIN r2.defers : Foreign(f, r2.defers[k], i)]]
        /\ fs' = RemoveAll(f, r2.defers)
        /\ UNCHANGED <<ffmpegInstalled, calc, pv>>
  IN
  /\ r.pc = "stage"
  /\ \E outcome \in {"create_err", "write_err", "seek_err", "upload_err", "ok"},
        originalExtGiven \in BOOLEAN :
       CASE outcome = "create_err" ->
              /\ ~originalExtGiven
              /\ Leave(r, fs, 500, <<"Failed to create temporary file: ", "create error">>)
         [] outcome = "write_err" ->
              /\ ~originalExtGiven
              /\ Leave(r1, fs, 500, <<"Failed to write to temporary file: ", "write error">>)
         [] outcome = "seek_err" ->
              /\ ~originalExtGiven
              /\ Leave(r1, staged, 500, <<"Failed to seek temporary file: ", "seek error">>)
         [] outcome = "upload_err" ->
              /\ ~originalExtGiven
              /\ Leave([r1 EXCEPT !.uploaded =
                          Append(r.uploaded, [key |-> r.Filename, data |-> staged[path].data,
                                              stored |-> FALSE])],
                       staged, UploadStatus(FALSE),
                       <<"Failed to upload to S3: ", "upload error">>)
         [] OTHER ->
              Leave([r1 EXCEPT !.uploaded =
                       Append(r.uploaded, [key |-> r.Filename, data |-> staged[path].data,
                                           stored |-> TRUE])],
                    staged, UploadStatus(TRUE),
                    IF r.handler = "HandleUpload"
                    THEN UploadMessage(r.Filename, r.fileInfoType, originalExtGiven)
                    ELSE SimpleMessage(r.fileInfoType))

\* ---------------------------------------------------- HandleSimpleUpload

\* A variant of the trim command that re-encodes the video stream.
TrimArgsReencoding ==
  [t |-> 30, cv |-> "libx264", preset |-> "", crf |-> 0, ca |-> "", ba |-> "",
   movflags |-> "", pix_fmt |-> "", c |-> ""]

\* The arguments of the trim command (file_utils.go lines 274-281).
TrimArgs ==
  [t |-> 30, cv |-> "", preset |-> "", crf |-> 0, ca |-> "", ba |-> "",
   movflags |-> "", pix_fmt |-> "", c |-> "copy"]

\* upload.go lines 497-508 and file_utils.go lines 258-292: the trimmed path
\* and its deferred removal, then TrimVideoTo30Seconds up to the encoder run,
\* and the handler's error branch.
TrimSteps(i, r, r0, trimmedPath) ==
  IF ~ffmpegInstalled
  THEN Exit(i, r0, 500, <<"Failed to trim video: ", "ffmpeg is not installed: ",
                             "executable file not found">>)
  ELSE \E outcome \in EncoderOutcomes :
            LET r1 == [EncoderTouches(r0, i, r.tempPath, trimmedPath, outcome)
                         EXCEPT !.steps = Append(r0.steps,
                                            Step("trim", outcome # "fail", TrimArgs))] IN
            /\ outcome # "fail" => Exists(fs, r.tempPath)
            /\ IF outcome = "fail"
               THEN Exit(i, r1, 500, <<"Failed to trim video: ", "ffmpeg failed to trim video: ",
                                       "exit status 1", ", stderr: ", "trim stderr">>)
               ELSE /\ rq' = [rq EXCEPT ![i] = [r1 EXCEPT !.pc = "s_trimverify"]]
                    /\ fs' = EncoderWrites(fs, i, r.tempPath, trimmedPath, "trimmed", outcome)
                    /\ UNCHANGED <<ffmpegInstalled, calc, pv>>

\* upload.go lines 472-495, then the trim: GetVideoMetadata on the temp copy
\* and the ratios computed from it.
Trim(i) ==
  LET r == rq[i]
      trimmedPath == TrimmedPathOf(r.Filename)
      probed == IF Exists(fs, r.tempPath) THEN fs[r.tempPath].data.form ELSE ""
      r0 == [r EXCEPT !.fileInfoType = <<"video">>,
                      !.probed = probed,
                      !.trimmedPath = trimmedPath,
                      !.defers = <<trimmedPath>> \o r.defers,
                      !.invoked = r.invoked \cup {"TrimVideoTo30Seconds"},
                      !.steps = r.steps \o <<Step("GetVideoMetadata", TRUE, NoArgs),
                                             Step("LookPath", ffmpegInstalled, NoArgs)>>] IN
  /\ r.pc = "s_trim"
  /\ IF probed # "" /\ PanickingDims # {}
     THEN \/ Panic(i, [r EXCEPT !.probed = probed])
          \/ TrimSteps(i, r, r0, trimmedPath)
     ELSE TrimSteps(i, r, r0, trimmedPath)

\* Whether TrimVideoTo30Seconds accepts its output (file_utils.go lines
\* 294-297): os.IsNotExist alone decides.
TrimOutputAccepted(exists, size) == exists

TrimVerify(i) ==
  LET r == rq[i]
      exists == Exists(fs, r.trimmedPath)
      r1 == [r EXCEPT !.foreign = r.foreign \/ Foreign(fs, r.trimmedPath, i)] IN
  /\ r.pc = "s_trimverify"
  /\ IF TrimOutputAccepted(exists, IF exists THEN fs[r.trimmedPath].data.size ELSE 0)
     THEN /\ rq' = [rq EXCEPT ![i] = [r1 EXCEPT !.pc = "s_upload"]]
          /\ UNCHANGED <<fs, ffmpegInstalled, calc, pv>>
     ELSE Exit(i, r1, 500, <<"Failed to trim video: ", "trimmed video file was not created: ">>)

\* Lines 510-552: the trimmed file is opened, sized and streamed to S3 under
\* header.Filename, then the response.
SimpleUpload(i) ==
  LET r == rq[i] IN
  /\ r.pc = "s_upload"
  /\ IF ~Exists(fs, r.trimmedPath)
     THEN Exit(i, r, 500, <<"Failed to open trimmed video: ", "no such file">>)
     ELSE \E stored \in BOOLEAN :
            LET r1 == [r EXCEPT !.foreign = r.foreign \/ Foreign(fs, r.trimmedPath, i),
                                !.uploaded =
                                   Append(r.uploaded, [key |-> r.Filename,
                                                       data |-> fs[r.trimmedPath].data,
                                                       stored |-> stored])] IN
            Exit(i, r1, UploadStatus(stored),
                 IF stored
                 THEN <<"Video trimmed to 30 seconds and uploaded successfully with aspect ratio extracted">>
                 ELSE <<"Failed to upload trimmed video to S3: ", "upload error">>)

Next ==
  \E i \in Reqs :
    \/ Receive(i)
    \/ TransformBegin(i)
    \/ TransformValidate(i)
    \/ TransformPrimary(i)
    \/ TransformFallback(i)
    \/ TransformVerify(i)
    \/ TransformReturned(i)
    \/ StageAndUpload(i)
    \/ Trim(i)
    \/ TrimVerify(i)
    \/ SimpleUpload(i)

Spec == Init /\ [][Next]_vars

\* ===================================================== Resizer.ResizeImage

\* A variant of the lookup in ResizeImage that goes by the entry's name.
SameFormatByName(f, formatName) == <<f.Name>> = formatName

\* `f.FormattedRatio == formatName` (resizer.go lines 59, 180).
SameFormat(f, formatName) == f.FormattedRatio = formatName

\* The first catalog entry with the given formatted ratio, or the zero value
\* (resizer.go lines 57-63).
LookupFormat(formatName) ==
  IF \E k \in DOMAIN formats : SameFormat(formats[k], formatName)
  THEN formats[CHOOSE k \in DOMAIN formats :
                 /\ SameFormat(formats[k], formatName)
                 /\ \A j \in 1..(k - 1) : ~SameFormat(formats[j], formatName)]
  ELSE NoFormat

\* imaging.Resize(img, width, height, filter): an empty image when the target
\* or the source has no area, else an image of exactly width x height (both
\* targets are positive in the catalog).
imagingResize(srcW, srcH, width, height) ==
  IF width <= 0 \/ height <= 0 \/ srcW <= 0 \/ srcH <= 0
  THEN [Width |-> 0, Height |-> 0]
  ELSE [Width |-> width, Height |-> height]

\* Resizer.ResizeImage (resizer.go lines 56-85); the JPEG it encodes decodes
\* to the size of dstImage.
ResizeImage(decodable, srcW, srcH, formatName) ==
  LET targetFormat == LookupFormat(formatName) IN
  IF targetFormat.FormattedRatio = << >>
  THEN [err |-> <<"invalid format name: ">> \o formatName, Width |-> 0, Height |-> 0]
  ELSE IF ~decodable
  THEN [err |-> <<"image: unknown format">>, Width |-> 0, Height |-> 0]
  ELSE LET dstImage == imagingResize(srcW, srcH, targetFormat.Width, targetFormat.Height) IN
       [err |-> << >>, Width |-> dstImage.Width, Height |-> dstImage.Height]

\* -------------------------------------------------------- GetVideoMetadata

\* The characters of a probe output line, and its largest length.
Chars == {"1", "6", ",", ".", "x", "\n"}
MaxLine == 5
Digits == {"1", "6"}
DigitValue(c) == IF c = "1" THEN 1 ELSE 6

RECURSIVE SeqsUpTo(_, _)
SeqsUpTo(S, n) ==
  IF n = 0 THEN {<< >>}
  ELSE LET shorter == SeqsUpTo(S, n - 1) IN
       shorter \cup {Append(q, c) : q \in {x \in shorter : Len(x) = n - 1}, c \in S}

Lines == SeqsUpTo(Chars, MaxLine)

\* strings.TrimSpace.
RECURSIVE TrimSpace(_)
TrimSpace(line) ==
  IF line = << >> THEN line
  ELSE IF Head(line) = "\n" THEN TrimSpace(Tail(line))
  ELSE IF line[Len(line)] = "\n" THEN TrimSpace(SubSeq(line, 1, Len(line) - 1))
  ELSE line

\* strings.Split(s, ","): one more field than there are commas.
RECURSIVE Split(_)
Split(line) ==
  IF \A k \in DOMAIN line : line[k] # ","
  THEN <<line>>
  ELSE LET k == CHOOSE j \in DOMAIN line :
                  line[j] = "," /\ \A l \in 1..(j - 1) : line[l] # "," IN
       <<SubSeq(line, 1, k - 1)>> \o Split(SubSeq(line, k + 1, Len(line)))

RECURSIVE DecimalValue(_)
DecimalValue(digits) ==
  IF digits = << >> THEN 0
  ELSE 10 * DecimalValue(SubSeq(digits, 1, Len(digits) - 1)) + DigitValue(digits[Len(digits)])

RECURSIVE Pow10(_)
Pow10(k) == IF k = 0 THEN 1 ELSE 10 * Pow10(k - 1)

\* strconv.Atoi with the error dropped: 0 unless the field is a numeral.
AtoiParses(field) == field # << >> /\ \A k \in DOMAIN field : field[k] \in Digits
Atoi(field) == IF AtoiParses(field) THEN DecimalValue(field) ELSE 0

\* strconv.ParseFloat(field, 64) with the error dropped: digits with at most
\* one point among them, at least one digit; 0 otherwise.
ParseFloatParses(field) ==
  /\ \A k \in DOMAIN field : field[k] \in Digits \cup {"."}
  /\ Cardinality({k \in DOMAIN field : field[k] = "."}) <= 1
  /\ \E k \in DOMAIN field : field[k] \in Digits

ParseFloat(field) ==
  IF ~ParseFloatParses(field) THEN Fin(0, 1)
  ELSE LET ds == SelectSeq(field, LAMBDA c : c \in Digits)
           points == {k \in DOMAIN field : field[k] = "."}
           frac == IF points = {} THEN 0 ELSE Len(field) - (CHOOSE k \in points : TRUE) IN
       Fin(DecimalValue(ds), Pow10(frac))

\* A variant of the field count test that asks for the dimensions only.
EnoughFieldsForSize(parts) == Len(parts) >= 2

\* `len(parts) < 3` negated (file_utils.go line 156).
EnoughFields(parts) == Len(parts) >= 3

\* GetVideoMetadata from the probe's output on (file_utils.go lines 154-164).
GetVideoMetadata(out) ==
  LET parts == Split(TrimSpace(out)) IN
  IF ~EnoughFields(parts)
  THEN [err |-> <<"unexpected ffprobe output format">>,
        Width |-> 0, Height |-> 0, Duration |-> Fin(0, 1)]
  ELSE [err |-> << >>,
        Width |-> IF Len(parts) >= 1 THEN Atoi(parts[1]) ELSE 0,
        Height |-> IF Len(parts) >= 2 THEN Atoi(parts[2]) ELSE 0,
        Duration |-> IF Len(parts) >= 3 THEN ParseFloat(parts[3]) ELSE Fin(0, 1)]

\* ----------------------------------------------------------- type sniffing

\* The length of the buffer handed to the type sniffer (file_utils.go line
\* 35, video_processor.go line 33).
HeadSize == 261

\* Files by their size in bytes and the signature their first bytes carry;
\* a signature takes some bytes (8 for PNG, 12 for the MP4 ftyp box).
FileSizes == {0, 1, 8, 12, 260, 261, 262}
Signatures == {"png", "mp4", "none"}
SigLen(sig) == CASE sig = "png" -> 8 [] sig = "mp4" -> 12 [] OTHER -> 0
Files == {file \in [size : FileSizes, sig : Signatures] : file.size >= SigLen(file.sig)}

\* head := make([]byte, 261) and file.Read(head) on the file just opened: the
\* buffer keeps its length, the bytes read come first and zeros follow; the
\* error is io.EOF, for an empty file only, and the count is dropped.
ReadHead(file) ==
  [err |-> file.size = 0, len |-> HeadSize, sig |-> file.sig]

\* filetype.Match(buf): an error for an empty buffer, else the type of the
\* first signature that matches, or the unknown type with no error.
Match(head) ==
  IF head.len = 0 THEN [err |-> TRUE, MIME |-> << >>]
  ELSE [err |-> FALSE,
        MIME |-> CASE head.sig = "png" -> <<"image", "png">>
                   [] head.sig = "mp4" -> <<"video", "mp4">>
                   [] OTHER -> << >>]

\* The sniffing step of ProcessFile (file_utils.go lines 34-47).
SniffFile(file) ==
  LET head == ReadHead(file)
      kind == Match(head) IN
  IF head.err \/ kind.err THEN [rejected |-> TRUE, FileType |-> << >>, isVideo |-> FALSE]
  ELSE [rejected |-> FALSE, FileType |-> kind.MIME, isVideo |-> FALSE]

\* The sniffing step of ProcessVideoWithBitrateReduction for a path without a
\* video extension (video_processor.go lines 32-43).
SniffVideo(file) ==
  LET head == ReadHead(file)
      kind == Match(head) IN
  IF head.err THEN [rejected |-> TRUE, FileType |-> << >>, isVideo |-> FALSE]
  ELSE [rejected |-> FALSE, FileType |-> kind.MIME,
        isVideo |-> ~kind.err /\ kind.MIME # << >> /\ HasPrefixVideo(kind.MIME)]

\* ------------------------------------------- the functions, called alone

\* The pieces of the input paths, and the longest path in pieces; a piece
\* with a dot comes last.
PathTokens == {"a", "_processed", "trimmed_", ".mp4", ".webm"}
MaxPath == 3

Dims == 0..MaxDim
Bounds == (1..MaxDen) \cup {maxDenominator}

\* The names ResizeImage is called with besides DetectFormat's answers.
FormatNames == { <<"landscape">>, <<"1.91", ":", "1">>, << >> }

IdleReqs == [i \in Reqs |-> InitReq(i, "HandleUpload", <<"a", ".txt">>, <<"image", "png">>)]

Input(kind, w, h, m, line) ==
  [kind |-> kind, op |-> "none", w |-> w, h |-> h, m |-> m, line |-> line,
   decodable |-> TRUE, formatName |-> << >>, out |-> << >>,
   catalog |-> formats, count |-> 0, first |-> << >>, readers |-> {},
   file |-> [size |-> 0, sig |-> "none"], path |-> << >>]

Paths ==
  {path \in SeqsUpTo(PathTokens, MaxPath) :
     Len(path) > 0 /\ \A k \in 1..(Len(path) - 1) : path[k] \notin ExtTokens}

CalcInit ==
  /\ rq = IdleReqs
  /\ fs = EmptyFS
  /\ ffmpegInstalled = TRUE
  /\ pv = NoCalls
  /\ calc \in {Input("dims", w, h, m, << >>) : w \in Dims, h \in Dims, m \in Bounds}
            \cup {Input("line", 0, 0, 1, line) : line \in Lines}
            \cup {Input("calls", w, h, 1, << >>) : w \in Dims, h \in Dims}
            \cup {[Input("file", 0, 0, 1, << >>) EXCEPT !.file = file] : file \in Files}
            \cup {[Input("path", 0, 0, 1, << >>) EXCEPT !.path = path] : path \in Paths}

Apply(op, out) ==
  /\ calc.op = "none"
  /\ calc' = [calc EXCEPT !.op = op, !.out = out]
  /\ UNCHANGED <<rq, fs, ffmpegInstalled, pv>>

CallDetectFormat ==
  /\ calc.kind = "dims"
  /\ Apply("DetectFormat", DetectFormat(calc.w, calc.h))

CallFloatToRatio ==
  /\ calc.kind = "dims"
  /\ Apply("FloatToRatio", FloatToRatio(FloatDiv(calc.w, calc.h), calc.m))

CallCalculateAspectRatio ==
  /\ calc.kind = "dims"
  /\ Apply("calculateAspectRatio", calculateAspectRatio(calc.w, calc.h))

\* The metadata step of the handlers on the dimensions found.
CallFileInfo ==
  /\ calc.kind = "dims"
  /\ Apply("FileInfo", FileInfoOf(calc.w, calc.h))

\* ResizeImage on an image buffer, with the name DetectFormat gave for its
\* size or with another name.
CallResizeImage ==
  /\ calc.kind = "dims"
  /\ calc.op = "none"
  /\ \E decodable \in BOOLEAN, formatName \in FormatNames \cup {DetectFormat(calc.w, calc.h)} :
       /\ decodable => (calc.w > 0 /\ calc.h > 0)
       /\ calc' = [calc EXCEPT !.op = "ResizeImage", !.decodable = decodable,
                               !.formatName = formatName,
                               !.out = ResizeImage(decodable, calc.w, calc.h, formatName)]
  /\ UNCHANGED <<rq, fs, ffmpegInstalled, pv>>

CallGetVideoMetadata ==
  /\ calc.kind = "line"
  /\ Apply("GetVideoMetadata", GetVideoMetadata(calc.line))

\* The quality settings of the Resizer instances, and the number of
\* DetectFormat calls made in a row on the same dimensions.
Qualities == {80, 90}
MaxRepeats == 2

\* DetectFormat called again on the same dimensions, on a Resizer of any
\* quality.
CallDetectFormatAgain ==
  /\ calc.kind = "calls"
  /\ calc.count < MaxRepeats
  /\ \E quality \in Qualities :
       LET out == DetectFormatOn(NewResizer(quality), calc.catalog, calc.w, calc.h) IN
       calc' = [calc EXCEPT !.op = "Resizer.DetectFormat",
                            !.out = out,
                            !.first = IF calc.count = 0 THEN out ELSE calc.first,
                            !.count = calc.count + 1,
                            !.catalog = RangeOver(calc.catalog)]
  /\ UNCHANGED <<rq, fs, ffmpegInstalled, pv>>

\* A call of another reader of the catalog, before or between those calls.
CallCatalogReader ==
  /\ calc.kind = "calls"
  /\ \E reader \in CatalogReaders \ calc.readers :
       calc' = [calc EXCEPT !.readers = calc.readers \cup {reader},
                            !.catalog = CatalogAfter(reader, calc.catalog)]
  /\ UNCHANGED <<rq, fs, ffmpegInstalled, pv>>

CallSniffFile ==
  /\ calc.kind = "file"
  /\ Apply("ProcessFile", SniffFile(calc.file))

CallSniffVideo ==
  /\ calc.kind = "file"
  /\ Apply("ProcessVideoWithBitrateReduction", SniffVideo(calc.file))

\* The output path of the transform for the temp copy of an upload, and the
\* path of the trimmed file.
CallOutputPath ==
  /\ calc.kind = "path"
  /\ Apply("outputPath", OutputPathOf(TempJoin(calc.path)))

CallTrimmedPath ==
  /\ calc.kind = "path"
  /\ Apply("trimmedPath", TrimmedPathOf(calc.path))

CalcNext ==
  \/ CallSniffFile
  \/ CallSniffVideo
  \/ CallOutputPath
  \/ CallTrimmedPath
  \/ CallDetectFormatAgain
  \/ CallCatalogReader
  \/ CallDetectFormat
  \/ CallFloatToRatio
  \/ CallCalculateAspectRatio
  \/ CallFileInfo
  \/ CallResizeImage
  \/ CallGetVideoMetadata

CalcSpec == CalcInit /\ [][CalcNext]_vars

\* ================================================= Resizer.ProcessVideo

\* The goroutines calling ProcessVideo, the calls each makes, and the buffers
\* the pool's New function may allocate.
Callers == {1, 2}
MaxCalls == 2
MaxBuffers == 3

NoBuffer == [id |-> 0, data |-> << >>]
IdleCall ==
  [pc |-> "idle", n |-> 0, errBuf |-> NoBuffer, reused |-> FALSE, emptyAtRun |-> TRUE,
   failed |-> FALSE, Logs |-> << >>]

PoolInit ==
  /\ rq = IdleReqs
  /\ fs = EmptyFS
  /\ ffmpegInstalled = TRUE
  /\ calc = NoCalc
  /\ pv = [pool |-> {}, call |-> [c \in Callers |-> IdleCall]]

Held == {pv.call[c].errBuf.id : c \in Callers} \ {0}
Allocated == Held \cup {b.id : b \in pv.pool}

SetCall(c, call, pool) ==
  /\ pv' = [pool |-> pool, call |-> [pv.call EXCEPT ![c] = call]]
  /\ UNCHANGED <<rq, fs, ffmpegInstalled, calc>>

\* Lines 125-131: validateFormat and its error return.
PVBegin(c) ==
  LET call == pv.call[c] IN
  /\ call.pc = "idle"
  /\ call.n < MaxCalls
  /\ \E formatName \in FormatNames \cup {formats[1].FormattedRatio} :
       IF LookupFormat(formatName).FormattedRatio = << >>
       THEN SetCall(c, [IdleCall EXCEPT !.n = call.n + 1], pv.pool)
       ELSE SetCall(c, [IdleCall EXCEPT !.n = call.n + 1, !.pc = "get"], pv.pool)

\* pool.Get() (line 143): a buffer taken out of the pool, or a new one from
\* New (lines 166-170) with nothing in it.
PVGet(c) ==
  LET call == pv.call[c] IN
  /\ call.pc = "get"
  /\ \/ \E b \in pv.pool :
          SetCall(c, [call EXCEPT !.errBuf = b, !.reused = b.data # << >>, !.pc = "reset"],
                  pv.pool \ {b})
     \/ \E id \in (1..MaxBuffers) \ Allocated :
          SetCall(c, [call EXCEPT !.errBuf = [id |-> id, data |-> << >>], !.pc = "reset"],
                  pv.pool)

\* A variant of the reset that leaves the buffer as it was.
ResetKeeping(buf) == buf

\* errBuf.Reset() (line 144).
Reset(buf) == [buf EXCEPT !.data = << >>]

PVReset(c) ==
  LET call == pv.call[c] IN
  /\ call.pc = "reset"
  /\ SetCall(c, [call EXCEPT !.errBuf = Reset(call.errBuf), !.pc = "run"], pv.pool)

\* Lines 147-155: the encoder run writes its output, the pair (caller, call
\* number), into errBuf; on failure the error takes a copy of the buffer's
\* text.
PVRun(c) ==
  LET call == pv.call[c]
      written == [call.errBuf EXCEPT !.data = call.errBuf.data \o << <<c, call.n>> >>] IN
  /\ call.pc = "run"
  /\ \E failed \in BOOLEAN :
       SetCall(c, [call EXCEPT !.errBuf = written,
                               !.emptyAtRun = call.errBuf.data = << >>,
                               !.failed = failed,
                               !.Logs = IF failed THEN written.data ELSE << >>,
                               !.pc = "put"],
               pv.pool)

\* The deferred pool.Put(errBuf) (line 145), as the call returns.
PVPut(c) ==
  LET call == pv.call[c] IN
  /\ call.pc = "put"
  /\ SetCall(c, [call EXCEPT !.errBuf = NoBuffer, !.pc = "idle"], pv.pool \cup {call.errBuf})

\* sync.Pool may drop a pooled buffer at any time.
PoolDrop ==
  /\ \E b \in pv.pool : pv' = [pv EXCEPT !.pool = pv.pool \ {b}]
  /\ UNCHANGED <<rq, fs, ffmpegInstalled, calc>>

PoolNext ==
  \/ \E c \in Callers : PVBegin(c) \/ PVGet(c) \/ PVReset(c) \/ PVRun(c) \/ PVPut(c)
  \/ PoolDrop

PoolSpec == PoolInit /\ [][PoolNext]_vars

\* ================================================================ claims

StepsAt(r, stage) == {k \in DOMAIN r.steps : r.steps[k].stage = stage}
EncodeSteps(r) == {k \in DOMAIN r.steps : r.steps[k].stage \in {"primary", "fallback"}}
Carries(text, piece) == piece \in Range(text)

\* The text an encoder run prints, were it captured into an error.
primaryOutput == "primary encoder output"
fallbackOutput == "fallback encoder output"

\* C1: in the full transform a failed primary run is followed by exactly one
\* fallback run, a successful one by none, and the fallback run uses the
\* ultrafast preset, a CRF above the primary's and re-encoded audio, whatever
\* the input container.
C1_OneRelaxedFallback ==
  \A i \in Reqs :
    LET r == rq[i]
        s == r.steps IN
    /\ Cardinality(StepsAt(r, "primary")) <= 1
    /\ Cardinality(StepsAt(r, "fallback")) <= 1
    /\ \A k \in StepsAt(r, "fallback") :
         /\ k > 1 /\ s[k - 1].stage = "primary" /\ ~s[k - 1].ok
         /\ s[k].args.preset = "ultrafast"
         /\ s[k].args.crf > s[k - 1].args.crf
         /\ s[k].args.ca \notin {"copy", ""}
    /\ r.returned =>
         \A k \in StepsAt(r, "primary") :
           IF s[k].ok
           THEN StepsAt(r, "fallback") = {}
           ELSE k < Len(s) /\ s[k + 1].stage = "fallback"

\* C1 witness: a transform has returned after a fallback run, on a container
\* outside the special ones and on a special one.
C1_Witness ==
  \E i, j \in Reqs :
    /\ rq[i].returned /\ StepsAt(rq[i], "fallback") # {} /\ Ext(rq[i].tempPath) = ".webm"
    /\ rq[j].returned /\ StepsAt(rq[j], "fallback") # {} /\ Ext(rq[j].tempPath) = ".mp4"

\* C2: when the last encoder run of the transform exited 0 and the output
\* file is missing or empty, the transform returns the empty-output error and
\* does not report a transformed file.
C2_EmptyOutputRejected ==
  \A i \in Reqs :
    LET r == rq[i] IN
    ( /\ r.returned
      /\ EncodeSteps(r) # {}
      /\ r.steps[CHOOSE k \in EncodeSteps(r) : \A j \in EncodeSteps(r) : j <= k].ok
      /\ r.outAtReturn \in {"missing", "empty"} )
    => (IsEmptyOutputError(r.err) /\ ~r.processed)

\* C3: when both encoder runs failed, the returned error carries the output
\* of the primary run and the output of the fallback run.
C3_BothDiagnosticsCarried ==
  \A i \in Reqs :
    (rq[i].returned /\ IsTranscodeError(rq[i].err))
    => (Carries(rq[i].err, primaryOutput) /\ Carries(rq[i].err, fallbackOutput))

\* C4: when a request has ended, none of the temporary files it created is
\* left in the temp directory.
C4_NoTempFileLeft ==
  \A i \in Reqs :
    rq[i].pc = "done" =>
      \A p \in rq[i].created : ~(Exists(fs, p) /\ fs[p].owner = i)

\* C5: the transform resolves the encoder, then validates the input, then
\* transcodes: a failed lookup ends it with the encoder-unavailable error and
\* no validation or encoder run, a failed validation ends it with the
\* corrupt-input error and no encoder run.
C5_StageOrder ==
  \A i \in Reqs :
    LET r == rq[i]
        s == r.steps IN
    r.handler = "HandleUpload" =>
      /\ \A k \in StepsAt(r, "validate") :
           \E j \in StepsAt(r, "LookPath") : j < k /\ s[j].ok
      /\ \A k \in EncodeSteps(r) :
           \E j \in StepsAt(r, "validate") : j < k /\ s[j].ok
      /\ \A k \in StepsAt(r, "LookPath") :
           ~s[k].ok => /\ r.returned /\ IsEncoderUnavailable(r.err)
                       /\ StepsAt(r, "validate") = {} /\ EncodeSteps(r) = {}
      /\ \A k \in StepsAt(r, "validate") :
           ~s[k].ok => /\ r.returned /\ IsCorruptInputError(r.err)
                       /\ EncodeSteps(r) = {}

\* C5 witness: one transform has ended on a failed validation while the
\* other went on to its primary run.
C5_Witness ==
  \E i, j \in Reqs :
    /\ rq[i].returned /\ IsCorruptInputError(rq[i].err)
    /\ StepsAt(rq[j], "primary") # {}

\* C6: a transform that found its input to be a video returns either no
\* error, an output path and processed = TRUE, or one of the named errors, no
\* path and processed = FALSE.
C6_TwoOutcomes ==
  \A i \in Reqs :
    LET r == rq[i] IN
    (r.returned /\ r.isVideo) =>
      \/ r.err = NoText /\ r.processedPath # NoPath /\ r.processed
      \/ /\ \/ IsEncoderUnavailable(r.err) \/ IsCorruptInputError(r.err)
            \/ IsTranscodeError(r.err) \/ IsEmptyOutputError(r.err)
         /\ r.processedPath = NoPath
         /\ ~r.processed

\* C6 witness: one transform has returned success after its fallback run, the
\* other has returned the empty-output error.
C6_Witness ==
  \E i, j \in Reqs :
    /\ rq[i].returned /\ rq[i].isVideo /\ rq[i].err = NoText
    /\ StepsAt(rq[i], "fallback") # {}
    /\ rq[j].returned /\ rq[j].isVideo /\ IsEmptyOutputError(rq[j].err)

\* C7: no request reads, overwrites or deletes a temporary file that another
\* request wrote, and the bytes a request hands to storage derive from its
\* own upload.
C7_NoSharedTempFiles ==
  \A i \in Reqs :
    /\ ~rq[i].foreign
    /\ \A k \in DOMAIN rq[i].uploaded : rq[i].uploaded[k].data.src = i

\* C8: a transcoded or trimmed file handed to storage is not empty.
C8_NoEmptyArtifactStored ==
  \A i \in Reqs :
    \A k \in DOMAIN rq[i].uploaded :
      rq[i].uploaded[k].data.form \in {"transcoded", "trimmed"}
      => rq[i].uploaded[k].data.size > 0

\* C9: once the transform has returned a per-asset error to HandleUpload, the
\* request ends with a 500 response that carries the error text and nothing
\* is handed to storage, whatever the file name's extension.
C9_TransformErrorSurfaced ==
  \A i \in Reqs :
    LET r == rq[i] IN
    ( /\ r.handler = "HandleUpload"
      /\ r.returned
      /\ IsCorruptInputError(r.err) \/ IsTranscodeError(r.err) \/ IsEmptyOutputError(r.err)
      /\ r.pc # "t_ret" )
    => /\ r.pc = "done"
       /\ r.response.status = 500
       /\ \A k \in DOMAIN r.err : Carries(r.response.Message, r.err[k])
       /\ r.uploaded = << >>

\* C10: an upload whose sniffed type is neither image nor video is reported
\* under its sniffed type, and neither the transform nor the trim is called
\* for it, whatever its file name.
C10_OtherPassesThrough ==
  \A i \in Reqs :
    rq[i].in.mime[1] \notin {"image", "video"} =>
      /\ rq[i].invoked = {}
      /\ rq[i].fileInfoType \in {<< >>, rq[i].in.mime}

\* C11: for dimensions with width = 0 or height = 0 no function raises a
\* division fault: FloatToRatio and the handlers' metadata step return a
\* value, and calculateAspectRatio returns "0:0".
C11_NoDivisionFault ==
  (calc.kind = "dims" /\ (calc.w = 0 \/ calc.h = 0)) =>
    /\ calc.op \in {"FloatToRatio", "FileInfo"} => ~calc.out.panic
    /\ calc.op = "calculateAspectRatio" => calc.out = <<"0", ":", "0">>

\* |w/h - formats[j].AspectRatio| < |w/h - formats[k].AspectRatio|, for h > 0.
NearerEntry(w, h, j, k) ==
  LET a == formats[j].AspectRatio
      b == formats[k].AspectRatio IN
  Abs(w * a.d, a.n * h) * b.d < Abs(w * b.d, b.n * h) * a.d

\* C12: for h > 0 DetectFormat returns the formatted ratio of a catalog entry
\* than which no entry is strictly nearer to w/h, and of the first such entry
\* in catalog order.
C12_NearestFirstEntry ==
  (calc.op = "DetectFormat" /\ calc.h > 0) =>
    \E k \in DOMAIN formats :
      /\ calc.out = formats[k].FormattedRatio
      /\ \A j \in DOMAIN formats : ~NearerEntry(calc.w, calc.h, j, k)
      /\ \A j \in 1..(k - 1) : NearerEntry(calc.w, calc.h, k, j)

\* C12 witness: DetectFormat has answered for a ratio at the same distance
\* from two entries (9/10, between 1:1 and 4:5) with the earlier entry.
C12_Witness ==
  /\ calc.op = "DetectFormat" /\ calc.w = 9 /\ calc.h = 10
  /\ ~NearerEntry(9, 10, 1, 2) /\ ~NearerEntry(9, 10, 2, 1)
  /\ calc.out = formats[1].FormattedRatio

\* |w/h - n1/d1| < |w/h - n2/d2|, for h > 0.
NearerPair(w, h, n1, d1, n2, d2) ==
  Abs(w * d1, n1 * h) * d2 < Abs(w * d2, n2 * h) * d1

\* C13: for a ratio f = w/h with h > 0 and a bound m >= 1, FloatToRatio(f, m)
\* returns (n, d) with 1 <= d <= m, n and d without a common divisor, and no
\* pair with denominator <= m strictly nearer to f (numerators beyond
\* floor(f*d') + 1 are farther than that one); FloatToRatio(16/9, 100) is
\* (16, 9).
C13_BestRational ==
  /\ (calc.op = "FloatToRatio" /\ calc.h > 0) =>
       /\ ~calc.out.panic
       /\ calc.out.den >= 1 /\ calc.out.den <= calc.m
       /\ \A k \in 2..calc.out.den : ~(calc.out.num % k = 0 /\ calc.out.den % k = 0)
       /\ \A d \in 1..calc.m : \A n \in 0..((calc.w * d) \div calc.h + 1) :
            ~NearerPair(calc.w, calc.h, n, d, calc.out.num, calc.out.den)
  /\ (calc.op = "FloatToRatio" /\ calc.w = 16 /\ calc.h = 9 /\ calc.m = maxDenominator) =>
       (calc.out.num = 16 /\ calc.out.den = 9)

\* C13 witness: FloatToRatio(16/9, 100) has returned (16, 9).
C13_Witness ==
  /\ calc.op = "FloatToRatio" /\ calc.w = 16 /\ calc.h = 9 /\ calc.m = 100
  /\ calc.out = [panic |-> FALSE, num |-> 16, den |-> 9]

\* C15: ResizeImage on a decodable image of height > 0, called with the string
\* DetectFormat returned for the image's size, finds a catalog entry and its
\* output has exactly that entry's target width and height.
C15_ResizeToMatchedFormat ==
  ( /\ calc.op = "ResizeImage" /\ calc.decodable /\ calc.h > 0
    /\ calc.formatName = DetectFormat(calc.w, calc.h) )
  => /\ calc.out.err = << >>
     /\ \E k \in DOMAIN formats :
          /\ formats[k].FormattedRatio = calc.formatName
          /\ calc.out.Width = formats[k].Width
          /\ calc.out.Height = formats[k].Height

\* C15 witness: a 16 x 9 image has been resized with DetectFormat's answer,
\* the landscape entry, to 1080 x 608.
C15_Witness ==
  /\ calc.op = "ResizeImage" /\ calc.decodable /\ calc.w = 16 /\ calc.h = 9
  /\ calc.formatName = DetectFormat(16, 9)
  /\ calc.formatName = formats[4].FormattedRatio
  /\ calc.out.Width = 1080 /\ calc.out.Height = 608

\* The fields of a probe output line: one more than its commas, once the
\* surrounding white space is gone.
FieldCount(line) == Cardinality({k \in DOMAIN TrimSpace(line) : TrimSpace(line)[k] = ","}) + 1

\* C16: GetVideoMetadata returns the format error exactly when the line has
\* fewer than 3 comma-separated fields; otherwise width, height and duration
\* are the values of the fields that parse and 0 for those that do not.
C16_ShortLineIsTheOnlyError ==
  calc.op = "GetVideoMetadata" =>
    LET parts == Split(TrimSpace(calc.line)) IN
    /\ (calc.out.err # << >>) <=> (FieldCount(calc.line) < 3)
    /\ FieldCount(calc.line) >= 3 =>
         /\ calc.out.Width = IF AtoiParses(parts[1]) THEN DecimalValue(parts[1]) ELSE 0
         /\ calc.out.Height = IF AtoiParses(parts[2]) THEN DecimalValue(parts[2]) ELSE 0
         /\ ~ParseFloatParses(parts[3]) => calc.out.Duration = Fin(0, 1)
         /\ ParseFloatParses(parts[3]) => calc.out.Duration.n > 0

\* C16 witness: the line "1,x,6" has given width 1, height 0 and duration 6
\* without an error.
C16_Witness ==
  /\ calc.op = "GetVideoMetadata" /\ calc.line = <<"1", ",", "x", ",", "6">>
  /\ calc.out = [err |-> << >>, Width |-> 1, Height |-> 0, Duration |-> Fin(6, 1)]

\* The ratio width:height in lowest terms, and as hundredths to one.
CanonicalRatio(width, height) ==
  SprintfRatio(width \div gcd(width, height), height \div gcd(width, height))
DecimalRatio(width, height) ==
  LET c == (200 * width + height) \div (2 * height) IN
  <<ToString(c \div 100), ".", ToString(c % 100), ":", "1">>

\* C20: every catalog entry has aspectRatio within a thousandth of
\* targetWidth / targetHeight and a formattedRatio that is the W:H form of
\* that ratio, and the entries are square, portrait, story, landscape in that
\* order.
C20_CatalogConsistent ==
  /\ calc = calc
  /\ [k \in DOMAIN formats |-> formats[k].Name] = <<"square", "portrait", "story", "landscape">>
  /\ \A k \in DOMAIN formats :
       LET f == formats[k] IN
       /\ 1000 * Abs(f.Width * f.AspectRatio.d, f.AspectRatio.n * f.Height)
            < f.Height * f.AspectRatio.d
       /\ f.FormattedRatio \in {CanonicalRatio(f.Width, f.Height), DecimalRatio(f.Width, f.Height)}

\* The length in seconds of what an encoder run writes for a source of the
\* given length: the -t option, when present, cuts it.
MaxDuration == 61
OutputDuration(sourceDuration, args) ==
  IF args.t > 0 /\ sourceDuration > args.t THEN args.t ELSE sourceDuration

\* C14: every encoder run of the full transform, primary or fallback, carries
\* the 59-second cap, so its output lasts at most 59 seconds, and as long as
\* the source when the source is shorter.
C14_DurationCapped ==
  \A i \in Reqs : \A k \in EncodeSteps(rq[i]) :
    LET args == rq[i].steps[k].args IN
    /\ args.t = 59
    /\ \A sourceDuration \in 0..MaxDuration :
         /\ OutputDuration(sourceDuration, args) <= 59
         /\ sourceDuration < 59 => OutputDuration(sourceDuration, args) = sourceDuration

\* C14 witness: one transform has produced its output with the primary run,
\* the other with the fallback run.
C14_Witness ==
  \E i, j \in Reqs :
    /\ rq[i].returned /\ rq[i].processed /\ StepsAt(rq[i], "fallback") = {}
    /\ rq[j].returned /\ rq[j].processed /\ StepsAt(rq[j], "fallback") # {}

\* C17: for an upload taken as an image or as another file, what is handed to
\* storage is the byte sequence received, under the received name.
C17_BytesUntouched ==
  \A i \in Reqs :
    LET r == rq[i] IN
    r.fileInfoType \notin {<< >>, <<"video">>} =>
      \A k \in DOMAIN r.uploaded :
        /\ r.uploaded[k].data = [src |-> i, form |-> "orig", size |-> 1]
        /\ r.uploaded[k].key = r.in.name

\* C17 witness: an image has been stored through HandleUpload and another
\* file through HandleSimpleUpload.
C17_Witness ==
  \E i, j \in Reqs :
    /\ rq[i].handler = "HandleUpload" /\ rq[i].fileInfoType = <<"image">>
    /\ rq[i].response.status = 200 /\ Len(rq[i].uploaded) = 1
    /\ rq[j].handler = "HandleSimpleUpload" /\ rq[j].fileInfoType = <<"application", "pdf">>
    /\ rq[j].response.status = 200 /\ Len(rq[j].uploaded) = 1

C19_PooledBufferIsolated ==
  /\ \A c \in Callers :
       LET call == pv.call[c] IN
       /\ call.pc = "put" => call.emptyAtRun
       /\ call.failed => call.Logs = << <<c, call.n>> >>
       /\ call.errBuf.id # 0 => call.errBuf.id \notin {b.id : b \in pv.pool}
  /\ \A c, d \in Callers :
       (c # d /\ pv.call[c].errBuf.id # 0) => pv.call[c].errBuf.id # pv.call[d].errBuf.id

\* C19 witness: a call whose run failed had taken from the pool a buffer that
\* still held the output of an earlier run, while the other caller holds a
\* buffer too.
C19_Witness ==
  \E c, d \in Callers :
    /\ c # d
    /\ pv.call[c].pc = "put" /\ pv.call[c].failed /\ pv.call[c].reused
    /\ pv.call[d].errBuf.id # 0
\* ------------------------------------------------ the encoder at startup

\* C22: the encoder's availability has been checked at startup before any
\* request reaches the lookup of the video transform, so that no request is
\* the first to find the encoder missing.
C22_EncoderCheckedAtStartup ==
  \A i \in Reqs :
    /\ StepsAt(rq[i], "LookPath") # {} => "ffmpeg" \in StartupChecks
    /\ (rq[i].returned /\ IsEncoderUnavailable(rq[i].err)) => "ffmpeg" \in StartupChecks

\* ------------------------------------------------------ upload and response

\* C26: a request hands its bytes to storage at most once, after it has
\* classified the upload and after the transform or the trim it started has
\* finished, and never after it has written a response; a 200 is written only
\* with the one upload that returned a URL.
C26_UploadOnceAtTheEnd ==
  [][\A i \in Reqs :
       LET r == rq[i]
           n == rq'[i] IN
       /\ n.uploaded # r.uploaded =>
            /\ r.uploaded = << >> /\ Len(n.uploaded) = 1
            /\ r.written = 0 /\ r.response = NoResp
            /\ r.fileInfoType # << >>
            /\ "ProcessVideoWithBitrateReduction" \in r.invoked => r.returned
            /\ "TrimVideoTo30Seconds" \in r.invoked =>
                 \E k \in StepsAt(r, "trim") : r.steps[k].ok
       /\ n.response.status = 200 =>
            Len(n.uploaded) = 1 /\ n.uploaded[1].stored]_vars

\* C26 witness: one request has answered 200 after its transform produced the
\* stored file, the other has answered 500 because its upload failed.
C26_Witness ==
  \E i, j \in Reqs :
    /\ rq[i].response.status = 200 /\ rq[i].wasProcessed
    /\ Len(rq[i].uploaded) = 1 /\ rq[i].uploaded[1].stored
    /\ rq[j].response.status = 500
    /\ Len(rq[j].uploaded) = 1 /\ ~rq[j].uploaded[1].stored

\* C27: HandleUpload's success response says that the video was processed
\* only when the transform ran for the request and produced the stored file.
C27_ProcessedMessageOnlyAfterTransform ==
  \A i \in Reqs :
    LET r == rq[i] IN
    (r.handler = "HandleUpload" /\ r.response.status = 200
       /\ r.response.Message = ProcessedMessage)
      => (r.returned /\ r.processed /\ r.err = NoText /\ r.wasProcessed)

\* The length of a file of the given form made from a source of the given
\* length.
FormDuration(form, sourceDuration) ==
  CASE form = "trimmed" -> OutputDuration(sourceDuration, TrimArgs)
    [] form = "transcoded" -> OutputDuration(sourceDuration, PrimaryArgs)
    [] OTHER -> sourceDuration

\* C28: the duration reported with a success response is that of the stored
\* bytes: at most 30 seconds for a trimmed video, at most 59 for a capped one.
C28_ReportedDurationOfStoredBytes ==
  \A i \in Reqs :
    LET r == rq[i] IN
    (r.response.status = 200 /\ r.probed # "" /\ Len(r.uploaded) = 1
       /\ r.uploaded[1].data.form \in {"trimmed", "transcoded"})
      => \A sourceDuration \in 0..MaxDuration :
           /\ FormDuration(r.probed, sourceDuration)
                = FormDuration(r.uploaded[1].data.form, sourceDuration)
           /\ FormDuration(r.probed, sourceDuration)
                <= (IF r.uploaded[1].data.form = "trimmed" THEN 30 ELSE 59)

\* C29: a request that has ended has written exactly one JSON response.
C29_OneResponse ==
  \A i \in Reqs :
    /\ rq[i].written <= 1
    /\ rq[i].pc = "done" => rq[i].written = 1

\* ------------------------------------------------- catalog and pure calls

\* C21: whatever functions have been called, the catalog has the entries, in
\* the order and with the fields, of the table it was created from.
C21_CatalogNeverMutated ==
  calc.kind # "none" => calc.catalog = formats

\* C21 witness: DetectFormat and every other reader of the catalog have been
\* called.
C21_Witness ==
  /\ calc.kind = "calls" /\ calc.count > 0 /\ calc.readers = CatalogReaders
  /\ calc.catalog = formats

\* C24: calculateAspectRatio answers "0:0" when width or height is 0, and
\* otherwise "a:b" with a and b the width and height divided by their greatest
\* common divisor: a and b have no common divisor and a * h = b * w.
C24_ReducedRatioOrSentinel ==
  calc.op = "calculateAspectRatio" =>
    IF calc.w = 0 \/ calc.h = 0 THEN calc.out = <<"0", ":", "0">>
    ELSE \E a \in 1..calc.w, b \in 1..calc.h :
           /\ calc.out = SprintfRatio(a, b)
           /\ a * calc.h = b * calc.w
           /\ \A g \in 2..a : ~(a % g = 0 /\ b % g = 0)
           /\ \E g \in 1..calc.w :
                /\ g * a = calc.w /\ g * b = calc.h
                /\ \A k \in (g + 1)..calc.w : ~(calc.w % k = 0 /\ calc.h % k = 0)

\* C24 witness: 16 x 12 has been reduced to 4:3.
C24_Witness ==
  /\ calc.op = "calculateAspectRatio" /\ calc.w = 16 /\ calc.h = 12
  /\ calc.out = <<"4", ":", "3">>

\* C25: every repeated call of DetectFormat on the same dimensions gives the
\* answer of the first call, on whichever Resizer it is made and whatever
\* other readers of the catalog were called before or in between.
C25_DetectFormatRepeatable ==
  (calc.kind = "calls" /\ calc.count > 0) =>
    /\ calc.out = calc.first
    /\ calc.out = DetectFormat(calc.w, calc.h)

\* C25 witness: a second call, after another reader was called, has answered
\* 9:16 as the first did.
C25_Witness ==
  /\ calc.kind = "calls" /\ calc.count = MaxRepeats /\ calc.readers # {}
  /\ calc.first = <<"9", ":", "16">> /\ calc.out = calc.first

\* C23: a file of fewer than 261 bytes, empty or not, is rejected by the
\* sniffing step of ProcessFile and of ProcessVideoWithBitrateReduction
\* instead of being classified.
C23_ShortFileRejected ==
  (calc.kind = "file" /\ calc.op # "none" /\ calc.file.size < HeadSize)
    => calc.out.rejected

\* C30: the path the encoder writes, for the transform and for the trim, is
\* not the path of the temp copy it reads, whatever the name of the upload.
C30_OutputIsNotInput ==
  (calc.kind = "path" /\ calc.op # "none") => calc.out # TempJoin(calc.path)

\* C30 witness: the transform's output path for a name that already ends in
\* _processed.mp4.
C30_Witness ==
  /\ calc.op = "outputPath" /\ calc.path = <<"a", "_processed", ".mp4">>
  /\ calc.out = <<"a", "_processed", "_processed", ".mp4">>

====
